---- MODULE Spec2Model ----
(***************************************************************************)
(* A model of split_gguf_proper.py: the reader of a GGUF container (magic, *)
(* version, two metadata counts, two metadata sections, tensor             *)
(* descriptors), the shard planner and the shard writer, and the command   *)
(* line entry point.  Files are sequences of bytes (0..255); every field   *)
(* is decoded from and encoded to little-endian bytes as struct.unpack and *)
(* struct.pack do.                                                         *)
(***************************************************************************)
EXTENDS Integers, Sequences, FiniteSets, TLC

(***************************************************************************)
(* Program constants.                                                      *)
(***************************************************************************)
GGUF_MAGIC == <<71, 71, 85, 70>>          \* b'GGUF'
MaxStringLen == 1048576                   \* 1024 * 1024
MaxArrayLen == 1000000

(***************************************************************************)
(* Python integers are unbounded.  A decoded value of 2^30 or more is      *)
(* represented by Huge: it exceeds every limit the program compares a      *)
(* decoded value with (MaxStringLen, MaxArrayLen, the length of a file of  *)
(* the model), and products saturate at it.                                *)
(***************************************************************************)
Huge == 64 * 16777216

Min(a, b) == IF a <= b THEN a ELSE b

\* The unsigned little-endian value of a byte string (struct.unpack '<I', '<Q').
UnpackLE(bs) ==
    IF \/ \E k \in 5..Len(bs) : bs[k] # 0
       \/ (Len(bs) >= 4 /\ bs[4] >= 64)
    THEN Huge
    ELSE LET b(k) == IF k <= Len(bs) THEN bs[k] ELSE 0
         IN  b(1) + 256 * b(2) + 65536 * b(3) + 16777216 * b(4)

\* struct.pack('<I', v) and struct.pack('<Q', v) for 0 <= v < 2^30.
PackLE(v, width) ==
    [k \in 1..width |->
        CASE k = 1 -> v % 256
          [] k = 2 -> (v \div 256) % 256
          [] k = 3 -> (v \div 65536) % 256
          [] k = 4 -> (v \div 16777216) % 256
          [] OTHER -> 0]

PackI(v) == PackLE(v, 4)
PackQ(v) == PackLE(v, 8)

\* f.read(n) at position pos: at most n bytes, fewer at the end of the file.
FileRead(f, pos, n) ==
    IF pos >= Len(f) \/ n <= 0 THEN << >>
    ELSE SubSeq(f, pos + 1, IF n >= Len(f) - pos THEN Len(f) ELSE pos + n)

\* The position after f.read(n) at position pos.
Advance(f, pos, n) == pos + Len(FileRead(f, pos, n))

(***************************************************************************)
(* bytes.decode('utf-8') and str.encode('utf-8').  A string is its         *)
(* sequence of code points.                                                *)
(***************************************************************************)
IsCont(b) == b >= 128 /\ b <= 191

\* The length of the UTF-8 sequence that starts at bs[k], or 0 if invalid.
Utf8SeqLen(bs, k) ==
    LET b0 == bs[k]
        has(n) == k + n - 1 <= Len(bs)
        b1 == bs[k + 1]
    IN  IF b0 <= 127 THEN 1
        ELSE IF b0 >= 194 /\ b0 <= 223
        THEN IF has(2) /\ IsCont(b1) THEN 2 ELSE 0
        ELSE IF b0 >= 224 /\ b0 <= 239
        THEN IF /\ has(3) /\ IsCont(b1) /\ IsCont(bs[k + 2])
                /\ (b0 = 224 => b1 >= 160)
                /\ (b0 = 237 => b1 <= 159)
             THEN 3 ELSE 0
        ELSE IF b0 >= 240 /\ b0 <= 244
        THEN IF /\ has(4) /\ IsCont(b1) /\ IsCont(bs[k + 2]) /\ IsCont(bs[k + 3])
                /\ (b0 = 240 => b1 >= 144)
                /\ (b0 = 244 => b1 <= 143)
             THEN 4 ELSE 0
        ELSE 0

Utf8CodePoint(bs, k, n) ==
    CASE n = 1 -> bs[k]
      [] n = 2 -> (bs[k] - 192) * 64 + (bs[k + 1] - 128)
      [] n = 3 -> (bs[k] - 224) * 4096 + (bs[k + 1] - 128) * 64 + (bs[k + 2] - 128)
      [] OTHER -> (bs[k] - 240) * 262144 + (bs[k + 1] - 128) * 4096
                  + (bs[k + 2] - 128) * 64 + (bs[k + 3] - 128)

RECURSIVE Utf8DecodeFrom(_, _, _)
Utf8DecodeFrom(bs, k, acc) ==
    IF k > Len(bs) THEN [ok |-> TRUE, str |-> acc]
    ELSE LET n == Utf8SeqLen(bs, k)
         IN  IF n = 0 THEN [ok |-> FALSE, str |-> << >>]
             ELSE Utf8DecodeFrom(bs, k + n, Append(acc, Utf8CodePoint(bs, k, n)))

Utf8Decode(bs) == Utf8DecodeFrom(bs, 1, << >>)

Utf8EncodeCp(c) ==
    IF c <= 127 THEN <<c>>
    ELSE IF c <= 2047 THEN <<192 + (c \div 64), 128 + (c % 64)>>
    ELSE IF c <= 65535
    THEN <<224 + (c \div 4096), 128 + ((c \div 64) % 64), 128 + (c % 64)>>
    ELSE <<240 + (c \div 262144), 128 + ((c \div 4096) % 64),
           128 + ((c \div 64) % 64), 128 + (c % 64)>>

RECURSIVE Utf8Encode(_)
Utf8Encode(str) ==
    IF str = << >> THEN << >>
    ELSE Utf8EncodeCp(Head(str)) \o Utf8Encode(Tail(str))

(***************************************************************************)
(* read_string: an 8-byte length, then that many bytes, decoded as UTF-8.  *)
(* ok = FALSE stands for the exception it raises.                          *)
(***************************************************************************)
StrErr == [ok |-> FALSE, str |-> << >>, pos |-> 0]

read_string(f, pos) ==
    LET length_bytes == FileRead(f, pos, 8)
        length == UnpackLE(length_bytes)
        data == FileRead(f, pos + 8, length)
        dec == Utf8Decode(data)
    IN  IF Len(length_bytes) < 8 THEN StrErr
        ELSE IF length > MaxStringLen THEN StrErr
        ELSE IF Len(data) < length THEN StrErr
        ELSE IF ~dec.ok THEN StrErr
        ELSE [ok |-> TRUE, str |-> dec.str, pos |-> pos + 8 + length]

\* struct.unpack(fmt, f.read(n))[0]: raises unless n bytes were read.
ReadUnpack(f, pos, n) ==
    LET bs == FileRead(f, pos, n)
    IN  IF Len(bs) < n THEN [ok |-> FALSE, val |-> 0, pos |-> pos]
        ELSE [ok |-> TRUE, val |-> UnpackLE(bs), pos |-> pos + n]
(***************************************************************************)
(* get_tensor_size: element size by type tag (4 when the tag is not in the *)
(* table) times the product of the dimensions.                             *)
(***************************************************************************)
type_sizes(tensor_type) ==
    CASE tensor_type = 0 -> 1
      [] tensor_type = 1 -> 2
      [] tensor_type \in {2, 3, 6, 7, 8} -> 4
      [] tensor_type \in {9, 10, 11, 12, 13, 14} -> 1
      [] OTHER -> 4

SatMul(a, b) ==
    IF a = 0 \/ b = 0 THEN 0
    ELSE IF a >= Huge \/ b >= Huge THEN Huge
    ELSE IF a > Huge \div b THEN Huge
    ELSE a * b

RECURSIVE Product(_)
Product(dims) ==
    IF dims = << >> THEN 1 ELSE SatMul(Head(dims), Product(Tail(dims)))

get_tensor_size(dims, tensor_type) ==
    SatMul(Product(dims), type_sizes(tensor_type))

(***************************************************************************)
(* The elements of an array value.  Each operator returns the position     *)
(* after the loop over array_len elements, ok = FALSE for an exception,    *)
(* and unknown = TRUE when the loop took its "unknown array type" branch.  *)
(***************************************************************************)
ArrErr == [ok |-> FALSE, pos |-> 0, unknown |-> FALSE]

RECURSIVE ReadStrings(_, _, _)
ReadStrings(f, pos, n) ==
    IF n = 0 THEN [ok |-> TRUE, pos |-> pos, unknown |-> FALSE]
    ELSE LET r == read_string(f, pos)
         IN  IF ~r.ok THEN ArrErr ELSE ReadStrings(f, r.pos, n - 1)

\* n times f.read(4), which never raises and stops at the end of the file.
SkipFours(f, pos, n) ==
    IF pos >= Len(f) THEN pos
    ELSE IF n >= Len(f) - pos THEN Len(f)
    ELSE Min(pos + 4 * n, Len(f))

\* Lines 194-204: the array loop of the general metadata section.
GeneralArray(f, pos, array_type, array_len) ==
    IF array_type = 8 THEN ReadStrings(f, pos, array_len)
    ELSE IF array_type \in {4, 5, 6}
    THEN IF pos + 4 * array_len <= Len(f)
         THEN [ok |-> TRUE, pos |-> pos + 4 * array_len, unknown |-> FALSE]
         ELSE ArrErr
    ELSE [ok |-> TRUE, pos |-> SkipFours(f, pos, array_len),
          unknown |-> array_len > 0]

\* Lines 233-239: the array loop of the tensor metadata section.
SkippedArray(f, pos, array_type, array_len) ==
    IF array_type = 8 THEN ReadStrings(f, pos, array_len)
    ELSE [ok |-> TRUE, pos |-> SkipFours(f, pos, array_len),
          unknown |-> array_type \notin {4, 5, 6} /\ array_len > 0]

(***************************************************************************)
(* One value after its type tag.  width > 0: a scalar of that many bytes.  *)
(***************************************************************************)
ScalarWidth(value_type) ==
    CASE value_type \in {0, 1, 7} -> 1
      [] value_type \in {2, 3} -> 2
      [] value_type \in {4, 5, 6} -> 4
      [] OTHER -> 0

ValErr == [ok |-> FALSE, pos |-> 0, unknown |-> FALSE, stored |-> FALSE]

\* Lines 170-211: the value of one general metadata entry.
GeneralValue(f, pos, value_type) ==
    IF value_type = 8
    THEN LET r == read_string(f, pos)
         IN  IF r.ok THEN [ok |-> TRUE, pos |-> r.pos, unknown |-> FALSE, stored |-> TRUE]
             ELSE ValErr
    ELSE IF ScalarWidth(value_type) > 0
    THEN LET r == ReadUnpack(f, pos, ScalarWidth(value_type))
         IN  IF r.ok THEN [ok |-> TRUE, pos |-> r.pos, unknown |-> FALSE, stored |-> TRUE]
             ELSE ValErr
    ELSE IF value_type = 9
    THEN LET t == ReadUnpack(f, pos, 4)
             n == ReadUnpack(f, t.pos, 8)
             a == GeneralArray(f, n.pos, t.val, n.val)
         IN  IF ~t.ok \/ ~n.ok THEN ValErr
             ELSE IF n.val > MaxArrayLen THEN ValErr
             ELSE IF ~a.ok THEN ValErr
             ELSE [ok |-> TRUE, pos |-> a.pos, unknown |-> a.unknown, stored |-> TRUE]
    ELSE \* unknown type: f.read(4) as a guess, the entry is not stored
         [ok |-> TRUE, pos |-> Advance(f, pos, 4), unknown |-> TRUE, stored |-> FALSE]

\* Lines 222-239: the value of one tensor metadata entry, skipped.
SkippedValue(f, pos, value_type) ==
    IF value_type = 8
    THEN LET r == read_string(f, pos)
         IN  IF r.ok THEN [ok |-> TRUE, pos |-> r.pos, unknown |-> FALSE, stored |-> FALSE]
             ELSE ValErr
    ELSE IF ScalarWidth(value_type) > 0
    THEN [ok |-> TRUE, pos |-> Advance(f, pos, ScalarWidth(value_type)),
          unknown |-> FALSE, stored |-> FALSE]
    ELSE IF value_type = 9
    THEN LET t == ReadUnpack(f, pos, 4)
             n == ReadUnpack(f, t.pos, 8)
             a == SkippedArray(f, n.pos, t.val, n.val)
         IN  IF ~t.ok \/ ~n.ok \/ ~a.ok THEN ValErr
             ELSE [ok |-> TRUE, pos |-> a.pos, unknown |-> a.unknown, stored |-> FALSE]
    ELSE \* no branch matches: the cursor does not move
         [ok |-> TRUE, pos |-> pos, unknown |-> TRUE, stored |-> FALSE]

(***************************************************************************)
(* read_tensor_info and the size annotation of lines 248-250.              *)
(***************************************************************************)
read_tensor_info(f, pos) ==
    LET name == read_string(f, pos)
        n_dims == ReadUnpack(f, name.pos, 4)
        fits == n_dims.val <= (Len(f) - n_dims.pos) \div 8
        dims == [k \in 1..n_dims.val |->
                    UnpackLE(FileRead(f, n_dims.pos + 8 * (k - 1), 8))]
        after == n_dims.pos + 8 * n_dims.val
        tensor_type == ReadUnpack(f, after, 4)
        offset == ReadUnpack(f, tensor_type.pos, 8)
    IN  IF ~name.ok THEN [ok |-> FALSE]
        ELSE IF ~n_dims.ok THEN [ok |-> FALSE]
        ELSE IF ~fits THEN [ok |-> FALSE]
        ELSE IF ~tensor_type.ok \/ ~offset.ok THEN [ok |-> FALSE]
        ELSE [ok |-> TRUE, pos |-> offset.pos,
              info |-> [name |-> name.str, dims |-> dims,
                        type |-> tensor_type.val, offset |-> offset.val,
                        size |-> get_tensor_size(dims, tensor_type.val)]]
(***************************************************************************)
(* The container reader of split_gguf, lines 143-255, as steps over a      *)
(* reader state rd.  Stages "bad_magic" (return False), "raised" (an       *)
(* exception left the function) and "parsed" end the reading.  rd.unknown  *)
(* counts the entries whose value took a "skip unknown type" branch.       *)
(***************************************************************************)
ReaderInit ==
    [stage |-> "header", pos |-> 0, version |-> 0,
     general_metadata_count |-> 0, tensor_metadata_count |-> 0, i |-> 0,
     metadata |-> {}, unknown |-> 0, num_tensors |-> 0, tensors |-> << >>]

Raised(rd) == [rd EXCEPT !.stage = "raised"]

\* The stage after the general metadata loop has run i of its iterations.
MetadataStage(rd, i) ==
    IF i < rd.general_metadata_count THEN "general"
    ELSE IF rd.tensor_metadata_count > 0 THEN "tensor_metadata"
    ELSE "tensor_count"

\* Lines 145-151: magic and version.
ReadHeaderStep(f, rd) ==
    LET magic == FileRead(f, 0, 4)
        version == ReadUnpack(f, 4, 4)
    IN  IF magic # GGUF_MAGIC THEN [rd EXCEPT !.stage = "bad_magic", !.pos = Len(magic)]
        ELSE IF ~version.ok THEN Raised(rd)
        ELSE [rd EXCEPT !.stage = "counts", !.pos = version.pos,
                        !.version = version.val]

\* Lines 154-159: the two metadata counts.
ReadCountsStep(f, rd) ==
    LET g == ReadUnpack(f, rd.pos, 8)
        t == ReadUnpack(f, g.pos, 8)
    IN  IF ~g.ok \/ ~t.ok THEN Raised(rd)
        ELSE LET counted == [rd EXCEPT !.general_metadata_count = g.val,
                                       !.tensor_metadata_count = t.val,
                                       !.pos = t.pos, !.i = 0]
             IN  [counted EXCEPT !.stage = MetadataStage(counted, 0)]

\* Lines 164-213: one iteration of the general metadata loop.
ReadGeneralEntryStep(f, rd) ==
    LET key == read_string(f, rd.pos)
        value_type == ReadUnpack(f, key.pos, 4)
        value == GeneralValue(f, value_type.pos, value_type.val)
    IN  IF ~key.ok THEN Raised(rd)
        ELSE IF ~value_type.ok THEN Raised(rd)
        ELSE IF ~value.ok THEN Raised(rd)
        ELSE [rd EXCEPT
                !.pos = value.pos,
                !.metadata = IF value.stored
                             THEN {m \in rd.metadata : m.key # key.str}
                                  \cup {[key |-> key.str, value_type |-> value_type.val]}
                             ELSE rd.metadata,
                !.unknown = rd.unknown + (IF value.unknown THEN 1 ELSE 0),
                !.i = IF MetadataStage(rd, rd.i + 1) = "general" THEN rd.i + 1 ELSE 0,
                !.stage = MetadataStage(rd, rd.i + 1)]

\* Lines 219-239: one iteration of the loop that skips tensor metadata.
SkipTensorMetadataStep(f, rd) ==
    LET key == read_string(f, rd.pos)
        value_type == ReadUnpack(f, key.pos, 4)
        value == SkippedValue(f, value_type.pos, value_type.val)
    IN  IF ~key.ok THEN Raised(rd)
        ELSE IF ~value_type.ok THEN Raised(rd)
        ELSE IF ~value.ok THEN Raised(rd)
        ELSE [rd EXCEPT
                !.pos = value.pos,
                !.unknown = rd.unknown + (IF value.unknown THEN 1 ELSE 0),
                !.i = rd.i + 1,
                !.stage = IF rd.i + 1 < rd.tensor_metadata_count
                          THEN "tensor_metadata" ELSE "tensor_count"]

\* Lines 242-243: the tensor count.
ReadTensorCountStep(f, rd) ==
    LET n == ReadUnpack(f, rd.pos, 8)
    IN  IF ~n.ok THEN Raised(rd)
        ELSE [rd EXCEPT !.num_tensors = n.val, !.pos = n.pos, !.i = 0,
                        !.stage = IF n.val > 0 THEN "tensor_info" ELSE "parsed"]

\* Lines 247-252: one iteration of the tensor descriptor loop.
ReadTensorInfoStep(f, rd) ==
    LET t == read_tensor_info(f, rd.pos)
    IN  IF ~t.ok THEN Raised(rd)
        ELSE [rd EXCEPT !.tensors = Append(rd.tensors, t.info),
                        !.pos = t.pos, !.i = rd.i + 1,
                        !.stage = IF rd.i + 1 < rd.num_tensors
                                  THEN "tensor_info" ELSE "parsed"]

ReaderDone(rd) == rd.stage \in {"bad_magic", "raised", "parsed"}

ReaderStep(f, rd) ==
    CASE rd.stage = "header" -> ReadHeaderStep(f, rd)
      [] rd.stage = "counts" -> ReadCountsStep(f, rd)
      [] rd.stage = "general" -> ReadGeneralEntryStep(f, rd)
      [] rd.stage = "tensor_metadata" -> SkipTensorMetadataStep(f, rd)
      [] rd.stage = "tensor_count" -> ReadTensorCountStep(f, rd)
      [] rd.stage = "tensor_info" -> ReadTensorInfoStep(f, rd)
      [] OTHER -> rd

\* The whole reader sequence over a file: the state it ends in.
RECURSIVE RunReader(_, _)
RunReader(f, rd) ==
    IF ReaderDone(rd) THEN rd ELSE RunReader(f, ReaderStep(f, rd))

ReadContainer(f) == RunReader(f, ReaderInit)
(***************************************************************************)
(* The shard planner and writer of split_gguf, lines 269-321.              *)
(***************************************************************************)
\* Python's // and % for a >= 0 and b # 0 (floor division).
PyFloorDiv(a, b) == IF b > 0 THEN a \div b ELSE 0 - ((a + (0 - b) - 1) \div (0 - b))
PyMod(a, b) == a - b * PyFloorDiv(a, b)

ShardTensorCount_OffByOne(per_shard, rem, shard) ==
    per_shard + (IF shard <= rem THEN 1 ELSE 0)

\* Line 292.
ShardTensorCount(per_shard, rem, shard) ==
    per_shard + (IF shard < rem THEN 1 ELSE 0)

\* Lines 283-295: what is written to a shard file before its tensors.
ShardHeader(version, shard_count) ==
    << [kind |-> "magic", tensor |-> -1, bytes |-> GGUF_MAGIC],
       [kind |-> "version", tensor |-> -1, bytes |-> PackI(version)],
       [kind |-> "num_kv", tensor |-> -1, bytes |-> PackQ(0)],
       [kind |-> "tensor_count", tensor |-> -1, bytes |-> PackQ(shard_count)] >>

RECURSIVE PackDims(_)
PackDims(dims) ==
    IF dims = << >> THEN << >> ELSE PackQ(Head(dims)) \o PackDims(Tail(dims))

\* Lines 306-313: one tensor descriptor with the offset written for it.
TensorInfoBytes(tensor, offset) ==
    LET name_bytes == Utf8Encode(tensor.name)
    IN  PackQ(Len(name_bytes)) \o name_bytes \o PackI(Len(tensor.dims))
        \o PackDims(tensor.dims) \o PackI(tensor.type) \o PackQ(offset)

\* Lines 316-317: f.seek(tensor['offset']); f.read(tensor['size']).
TensorData(f, tensor) == FileRead(f, tensor.offset, tensor.size)

\* Line 298: the offset written for the first tensor of a shard.
FirstShardOffset(start) == start

NextTensorIdx_Stuck(idx) == idx

\* Line 321.
NextTensorIdx(idx) == idx + 1

\* The bytes of a file written as a sequence of writes.
RECURSIVE FileBytes(_)
FileBytes(writes) ==
    IF writes = << >> THEN << >>
    ELSE Head(writes).bytes \o FileBytes(Tail(writes))
(***************************************************************************)
(* The inputs: command lines and source files.  A source file is laid out  *)
(* as the reader expects it, with the tensor data after the descriptors    *)
(* and each descriptor's offset the file position of its data; cut bytes   *)
(* are missing from the end of the data.                                   *)
(***************************************************************************)
MaxTensors == 3
MaxShards == 3
MaxCut == 1
MaxMeta == 1

SeqsUpTo(S, n) == UNION {[1..k -> S] : k \in 0..n}

EncString(bytes) == PackQ(Len(bytes)) \o bytes

EncEntry(e) == EncString(e.key) \o PackI(e.value_type) \o e.payload

RECURSIVE EncEntries(_)
EncEntries(es) ==
    IF es = << >> THEN << >> ELSE EncEntry(Head(es)) \o EncEntries(Tail(es))

\* Entries of every recognised kind, an array of UINT8 (tag 0, one byte per
\* element) and a UINT64 (tag 10, eight bytes), which the reader has no branch for.
EntryChoices ==
    { [key |-> <<107>>, value_type |-> 4, payload |-> PackI(7)],
      [key |-> <<107>>, value_type |-> 0, payload |-> <<1>>],
      [key |-> <<109>>, value_type |-> 8, payload |-> EncString(<<97>>)],
      [key |-> <<109>>, value_type |-> 9,
       payload |-> PackI(4) \o PackQ(2) \o PackI(1) \o PackI(2)],
      [key |-> <<110>>, value_type |-> 9,
       payload |-> PackI(8) \o PackQ(1) \o EncString(<<97>>)],
      [key |-> <<110>>, value_type |-> 9,
       payload |-> PackI(0) \o PackQ(2) \o <<1, 2>>],
      [key |-> <<111>>, value_type |-> 10, payload |-> PackQ(5)] }

\* name "a", 2 x F32-tagged (size 2); name "e-acute", scalar F16-tagged
\* (size 2); name "b", 1 x 3 of a tag outside the size table (size 12);
\* the empty name, 0 elements (size 0).
TensorA == [name |-> <<97>>, dims |-> <<2>>, type |-> 0]
TensorB == [name |-> <<233>>, dims |-> << >>, type |-> 1]
TensorC == [name |-> <<98>>, dims |-> <<1, 3>>, type |-> 20]
TensorD == [name |-> << >>, dims |-> <<0>>, type |-> 2]
TensorChoices == {TensorA, TensorB, TensorC, TensorD}

SizeOf(t) == get_tensor_size(t.dims, t.type)

RECURSIVE SumSizes(_, _)
SumSizes(ts, k) == IF k = 0 THEN 0 ELSE SizeOf(ts[k]) + SumSizes(ts, k - 1)

RECURSIVE EncTensors(_, _, _)
EncTensors(ts, k, base) ==
    IF k > Len(ts) THEN << >>
    ELSE TensorInfoBytes(ts[k], base + SumSizes(ts, k - 1)) \o EncTensors(ts, k + 1, base)

RECURSIVE DataRegion(_, _)
DataRegion(ts, k) ==
    IF k > Len(ts) THEN << >>
    ELSE [j \in 1..SizeOf(ts[k]) |-> 16 * k + j] \o DataRegion(ts, k + 1)

MetaBytes(magic, general, tmeta) ==
    magic \o PackI(3) \o PackQ(Len(general)) \o PackQ(Len(tmeta))
    \o EncEntries(general) \o EncEntries(tmeta)

BuildFile(magic, general, tmeta, ts, cut) ==
    LET meta == MetaBytes(magic, general, tmeta)
        base == Len(meta) + 8 + Len(EncTensors(ts, 1, 0))
        data == DataRegion(ts, 1)
    IN  meta \o PackQ(Len(ts)) \o EncTensors(ts, 1, base)
        \o SubSeq(data, 1, Len(data) - Min(cut, Len(data)))

Input(file, meta_end, n) ==
    [argc |-> 3, num_is_int |-> TRUE, exists |-> TRUE, num_shards |-> n,
     file |-> file, meta_end |-> meta_end]

BadMagic == <<71, 71, 85, 88>>
RefTensors == <<TensorA, TensorC>>
RefGeneral == <<[key |-> <<107>>, value_type |-> 4, payload |-> PackI(7)]>>
RefTmeta == <<[key |-> <<109>>, value_type |-> 8, payload |-> EncString(<<97>>)]>>
RefFile == BuildFile(GGUF_MAGIC, RefGeneral, RefTmeta, RefTensors, 0)
RefMetaEnd == Len(MetaBytes(GGUF_MAGIC, RefGeneral, RefTmeta))
PlainMetaEnd == Len(MetaBytes(GGUF_MAGIC, << >>, << >>))

\* Well-formed files without metadata, every catalog and shard count.
SplitInputs ==
    { Input(BuildFile(GGUF_MAGIC, << >>, << >>, ts, cut), PlainMetaEnd, n) :
        ts \in SeqsUpTo(TensorChoices, MaxTensors), cut \in 0..MaxCut,
        n \in -1..MaxShards }

\* Files with entries in one of the two metadata sections.
MetaInputs ==
    { Input(BuildFile(GGUF_MAGIC, g, << >>, RefTensors, 0),
            Len(MetaBytes(GGUF_MAGIC, g, << >>)), 2) :
        g \in SeqsUpTo(EntryChoices, MaxMeta) }
    \cup
    { Input(BuildFile(GGUF_MAGIC, << >>, t, RefTensors, 0),
            Len(MetaBytes(GGUF_MAGIC, << >>, t)), 2) :
        t \in SeqsUpTo(EntryChoices, MaxMeta) }

\* A wrong magic, every truncation of a file, a name that is not UTF-8, a
\* string length of 2^40 and an array length above the limit.
BadNameFile ==
    MetaBytes(GGUF_MAGIC, << >>, << >>) \o PackQ(1)
    \o EncString(<<255>>) \o PackI(0) \o PackI(0) \o PackQ(0)
BigStringFile ==
    MetaBytes(GGUF_MAGIC, << >>, << >>) \o PackQ(1)
    \o <<0, 0, 0, 0, 0, 1, 0, 0>> \o <<97>>
BigArrayFile ==
    BuildFile(GGUF_MAGIC,
              <<[key |-> <<107>>, value_type |-> 9,
                 payload |-> PackI(4) \o PackQ(MaxArrayLen + 1)]>>,
              << >>, RefTensors, 0)

MalformedInputs ==
    { Input(BuildFile(BadMagic, RefGeneral, RefTmeta, RefTensors, 0), RefMetaEnd, n) :
        n \in {0, 2} }
    \cup { Input(SubSeq(RefFile, 1, k), RefMetaEnd, 2) : k \in 0..Len(RefFile) }
    \cup { Input(f, PlainMetaEnd, 2) : f \in {BadNameFile, BigStringFile} }
    \cup { Input(BigArrayFile, 0, 2) }

\* Too few arguments, a shard count that is no integer, a missing file.
ArgInputs ==
    { [Input(RefFile, RefMetaEnd, 2) EXCEPT !.argc = 2],
      [Input(RefFile, RefMetaEnd, 2) EXCEPT !.num_is_int = FALSE],
      [Input(RefFile, RefMetaEnd, 2) EXCEPT !.exists = FALSE] }

Inputs == SplitInputs \cup MetaInputs \cup MalformedInputs \cup ArgInputs

(***************************************************************************)
(* The program: __main__ and split_gguf.                                   *)
(***************************************************************************)
VARIABLES
    input,               \* sys.argv and the source file
    pc,                  \* where the program is
    rd,                  \* the reader: cursor f.tell() and what was parsed
    file_size, data_start,
    tensors_per_shard, remainder,
    tensor_idx, shard_num,
    shard_tensor_count, shard_data_offset, i,
    shards,              \* the shard files on disk, each the writes made to it
    result,              \* what split_gguf returned: "True", "False", "raised"
    exit_status          \* the exit status of the process, -1 while it runs

vars == <<input, pc, rd, file_size, data_start, tensors_per_shard, remainder,
          tensor_idx, shard_num, shard_tensor_count, shard_data_offset, i,
          shards, result, exit_status>>

plan_vars == <<tensors_per_shard, remainder, tensor_idx, shard_num>>
shard_vars == <<shard_tensor_count, shard_data_offset, i>>
end_vars == <<file_size, data_start>>

num_shards == input.num_shards
src == input.file

Init ==
    /\ input \in Inputs
    /\ pc = "main"
    /\ rd = ReaderInit
    /\ file_size = 0 /\ data_start = 0
    /\ tensors_per_shard = 0 /\ remainder = 0
    /\ tensor_idx = 0 /\ shard_num = 0
    /\ shard_tensor_count = 0 /\ shard_data_offset = 0 /\ i = 0
    /\ shards = << >>
    /\ result = "none"
    /\ exit_status = -1

\* Lines 330-343: the argument checks, then the call of split_gguf.
Main ==
    /\ pc = "main"
    /\ IF input.argc < 3 \/ ~input.num_is_int \/ ~input.exists
       THEN pc' = "exited" /\ exit_status' = 1
       ELSE pc' = "reading" /\ exit_status' = exit_status
    /\ UNCHANGED <<input, rd, end_vars, plan_vars, shard_vars, shards, result>>

\* How a reader step ends: an exception ends the process with status 1, a
\* wrong magic makes split_gguf return False.
ReadingOutcome ==
    /\ IF rd'.stage = "raised"
       THEN pc' = "exited" /\ result' = "raised" /\ exit_status' = 1
       ELSE IF rd'.stage = "bad_magic"
       THEN pc' = "returned" /\ result' = "False" /\ exit_status' = exit_status
       ELSE pc' = pc /\ result' = result /\ exit_status' = exit_status
    /\ UNCHANGED <<input, end_vars, plan_vars, shard_vars, shards>>

ReadHeader ==
    /\ pc = "reading"
    /\ rd.stage = "header"
    /\ rd' = ReadHeaderStep(src, rd)
    /\ ReadingOutcome

ReadCounts ==
    /\ pc = "reading"
    /\ rd.stage = "counts"
    /\ rd' = ReadCountsStep(src, rd)
    /\ ReadingOutcome

ReadGeneralEntry ==
    /\ pc = "reading"
    /\ rd.stage = "general"
    /\ rd' = ReadGeneralEntryStep(src, rd)
    /\ ReadingOutcome

SkipTensorMetadata ==
    /\ pc = "reading"
    /\ rd.stage = "tensor_metadata"
    /\ rd' = SkipTensorMetadataStep(src, rd)
    /\ ReadingOutcome

ReadTensorCount ==
    /\ pc = "reading"
    /\ rd.stage = "tensor_count"
    /\ rd' = ReadTensorCountStep(src, rd)
    /\ ReadingOutcome

ReadTensorInfo ==
    /\ pc = "reading"
    /\ rd.stage = "tensor_info"
    /\ rd' = ReadTensorInfoStep(src, rd)
    /\ ReadingOutcome

\* Lines 257-262: f.seek(0, 2), file_size = f.tell(), data_start = f.tell().
SeekEnd ==
    /\ pc = "reading"
    /\ rd.stage = "parsed"
    /\ rd' = [rd EXCEPT !.pos = Len(src)]
    /\ file_size' = Len(src)
    /\ data_start' = Len(src)
    /\ pc' = "plan"
    /\ UNCHANGED <<input, plan_vars, shard_vars, shards, result, exit_status>>

\* Lines 269-276: the division raises ZeroDivisionError when num_shards = 0.
Plan ==
    /\ pc = "plan"
    /\ IF num_shards = 0
       THEN /\ pc' = "exited" /\ result' = "raised" /\ exit_status' = 1
            /\ UNCHANGED plan_vars
       ELSE /\ tensors_per_shard' = PyFloorDiv(rd.num_tensors, num_shards)
            /\ remainder' = PyMod(rd.num_tensors, num_shards)
            /\ tensor_idx' = 0
            /\ shard_num' = 0
            /\ pc' = "shards"
            /\ UNCHANGED <<result, exit_status>>
    /\ UNCHANGED <<input, rd, end_vars, shard_vars, shards>>

\* Lines 277-298: open shard-<shard_num>.gguf and write its header.
OpenShard ==
    /\ pc = "shards"
    /\ shard_num < num_shards
    /\ shard_tensor_count' = ShardTensorCount(tensors_per_shard, remainder, shard_num)
    /\ shards' = Append(shards, ShardHeader(rd.version, shard_tensor_count'))
    /\ shard_data_offset' = FirstShardOffset(data_start)
    /\ i' = 0
    /\ pc' = "tensors"
    /\ UNCHANGED <<input, rd, end_vars, plan_vars, result, exit_status>>

\* Lines 299-321: one iteration of the tensor loop of a shard.
WriteTensor ==
    /\ pc = "tensors"
    /\ i < shard_tensor_count
    /\ tensor_idx < rd.num_tensors
    /\ LET tensor == rd.tensors[tensor_idx + 1]
           tensor_data == TensorData(src, tensor)
           file == shards[Len(shards)]
       IN  /\ shards' = [shards EXCEPT ![Len(shards)] =
                  file \o << [kind |-> "info", tensor |-> tensor_idx,
                              bytes |-> TensorInfoBytes(tensor, shard_data_offset)],
                             [kind |-> "data", tensor |-> tensor_idx,
                              bytes |-> tensor_data] >>]
           /\ shard_data_offset' = shard_data_offset + Len(tensor_data)
    /\ tensor_idx' = NextTensorIdx(tensor_idx)
    /\ i' = i + 1
    /\ UNCHANGED <<input, pc, rd, end_vars, tensors_per_shard, remainder, shard_num,
                   shard_tensor_count, result, exit_status>>

\* Lines 299-301 and 323-324: the loop ends, the shard file is closed.
CloseShard ==
    /\ pc = "tensors"
    /\ i >= shard_tensor_count \/ tensor_idx >= rd.num_tensors
    /\ shard_num' = shard_num + 1
    /\ pc' = "shards"
    /\ UNCHANGED <<input, rd, end_vars, tensors_per_shard, remainder, tensor_idx,
                   shard_vars, shards, result, exit_status>>

\* Lines 326-327.
ReturnTrue ==
    /\ pc = "shards"
    /\ shard_num >= num_shards
    /\ result' = "True"
    /\ pc' = "returned"
    /\ UNCHANGED <<input, rd, end_vars, plan_vars, shard_vars, shards, exit_status>>

\* Line 343: the value split_gguf returned is dropped and the script ends.
ScriptEnd ==
    /\ pc = "returned"
    /\ exit_status' = 0
    /\ pc' = "exited"
    /\ UNCHANGED <<input, rd, end_vars, plan_vars, shard_vars, shards, result>>

Next ==
    \/ Main
    \/ ReadHeader
    \/ ReadCounts
    \/ ReadGeneralEntry
    \/ SkipTensorMetadata
    \/ ReadTensorCount
    \/ ReadTensorInfo
    \/ SeekEnd
    \/ Plan
    \/ OpenShard
    \/ WriteTensor
    \/ CloseShard
    \/ ReturnTrue
    \/ ScriptEnd

Spec == Init /\ [][Next]_vars
(***************************************************************************)
(* What the shard files hold.                                              *)
(***************************************************************************)
IsInfo(w) == w.kind = "info"
IsData(w) == w.kind = "data"
InfoWrites(file) == SelectSeq(file, IsInfo)
DataWrites(file) == SelectSeq(file, IsData)

\* The (name, dims, type tag) of a catalog entry.
Descriptor(t) == [name |-> t.name, dims |-> t.dims, type |-> t.type]

\* The descriptor and the offset field read back from a written descriptor.
WrittenInfo(w) == read_tensor_info(w.bytes, 0).info
WrittenDescriptors(file) ==
    [k \in 1..Len(InfoWrites(file)) |-> Descriptor(WrittenInfo(InfoWrites(file)[k]))]
WrittenOffsets(file) ==
    [k \in 1..Len(InfoWrites(file)) |-> WrittenInfo(InfoWrites(file)[k]).offset]

\* The tensor count field of a shard file's header.
WrittenCount(file) == UnpackLE(file[4].bytes)

RECURSIVE ConcatDescriptors(_)
ConcatDescriptors(files) ==
    IF files = << >> THEN << >>
    ELSE WrittenDescriptors(Head(files)) \o ConcatDescriptors(Tail(files))

Catalog == [k \in 1..Len(rd.tensors) |-> Descriptor(rd.tensors[k])]

\* split_gguf wrote all its shards and returned True.
SplitDone == result = "True"

\* The shards whose "Complete!" line was printed.
CompletedShards == 1..Min(shard_num, Len(shards))

\* The catalog entry a write belongs to.
TensorOf(w) == rd.tensors[w.tensor + 1]

\* A copy got fewer bytes than the tensor's byte_size.
ShortRead == \E s \in 1..Len(shards) : \E k \in 1..Len(shards[s]) :
                 /\ IsData(shards[s][k])
                 /\ Len(shards[s][k].bytes) < TensorOf(shards[s][k]).size

(***************************************************************************)
(* C1: for num_shards >= 1, once split_gguf has written all shards, the    *)
(* descriptors written to shard 0, 1, ... in order, read back from the     *)
(* bytes written, are the tensor catalog in descriptor-block order: no     *)
(* tensor is lost, duplicated or reordered.                                *)
(***************************************************************************)
C1_ConcatIsCatalog ==
    (SplitDone /\ num_shards >= 1) => ConcatDescriptors(shards) = Catalog

C1_Witness ==
    /\ SplitDone /\ num_shards = 2 /\ Len(rd.tensors) = 3
    /\ Len(InfoWrites(shards[1])) = 2 /\ Len(InfoWrites(shards[2])) = 1
    /\ rd.tensors[1].name # rd.tensors[2].name


(***************************************************************************)
(* C2: for num_shards >= 1, with base = total div num_shards and extra =   *)
(* total mod num_shards, there is one file per shard, shard i holds base+1 *)
(* tensors if i < extra and base otherwise (as many as its header count    *)
(* says), exactly extra shards hold base+1, and a shard beyond the total   *)
(* is an empty file.                                                       *)
(***************************************************************************)
C2_ShardCounts ==
    (SplitDone /\ num_shards >= 1) =>
        LET total == rd.num_tensors
            base == total \div num_shards
            extra == total % num_shards
            held(s) == Len(InfoWrites(shards[s]))
        IN  /\ Len(shards) = num_shards
            /\ \A s \in 1..num_shards :
                  /\ held(s) = IF s - 1 < extra THEN base + 1 ELSE base
                  /\ held(s) = Len(DataWrites(shards[s]))
                  /\ held(s) = WrittenCount(shards[s])
                  /\ Len(shards[s]) = 4 + 2 * held(s)
            /\ Cardinality({s \in 1..num_shards : held(s) = base + 1}) = extra
            /\ (num_shards = 1 => held(1) = total)

C2_Witness ==
    /\ SplitDone /\ num_shards = 3 /\ rd.num_tensors = 2
    /\ Len(InfoWrites(shards[1])) = 1 /\ Len(InfoWrites(shards[2])) = 1
    /\ Len(shards[3]) = 4 /\ WrittenCount(shards[3]) = 0


(***************************************************************************)
(* C3: in every shard file the offset field of the first descriptor is 0   *)
(* and the offset of each later descriptor is the previous offset plus the *)
(* byte_size of the previous tensor.                                       *)
(***************************************************************************)
C3_ShardLocalOffsets ==
    \A s \in 1..Len(shards) :
        LET infos == InfoWrites(shards[s])
            offs == WrittenOffsets(shards[s])
        IN  /\ (Len(infos) >= 1 => offs[1] = 0)
            /\ \A k \in 1..(Len(infos) - 1) :
                   offs[k + 1] = offs[k] + TensorOf(infos[k]).size

\* The data bytes written, and the byte_size total, of a sequence of writes.
RECURSIVE SumBytes(_)
SumBytes(ws) == IF ws = << >> THEN 0 ELSE Len(Head(ws).bytes) + SumBytes(Tail(ws))

RECURSIVE SumByteSize(_)
SumByteSize(ws) ==
    IF ws = << >> THEN 0 ELSE TensorOf(Head(ws)).size + SumByteSize(Tail(ws))

(***************************************************************************)
(* C4: for every completed shard the data bytes copied into it number the  *)
(* sum of byte_size over its tensors, and for each tensor they are the     *)
(* byte_size source bytes from its source offset on.                       *)
(***************************************************************************)
C4_CopiedBytes ==
    \A s \in CompletedShards :
        LET datas == DataWrites(shards[s])
        IN  /\ SumBytes(datas) = SumByteSize(InfoWrites(shards[s]))
            /\ \A k \in 1..Len(datas) :
                  LET t == TensorOf(datas[k])
                  IN  /\ Len(datas[k].bytes) = t.size
                      /\ t.offset + t.size <= Len(src)
                      /\ datas[k].bytes = SubSeq(src, t.offset + 1, t.offset + t.size)

(***************************************************************************)
(* C5: the reader sequence run over a completed shard file succeeds and    *)
(* yields the tensor count and the ordered (name, dims, type tag) list     *)
(* planned for the shard.                                                  *)
(***************************************************************************)
C5_RoundTrip ==
    \A s \in CompletedShards :
        LET back == ReadContainer(FileBytes(shards[s]))
            planned == [k \in 1..Len(InfoWrites(shards[s])) |->
                           Descriptor(TensorOf(InfoWrites(shards[s])[k]))]
        IN  /\ back.stage = "parsed"
            /\ back.num_tensors = Len(planned)
            /\ [k \in 1..Len(back.tensors) |-> Descriptor(back.tensors[k])] = planned

(***************************************************************************)
(* C6: after a copy that got fewer than byte_size bytes the split has      *)
(* failed: it writes no further tensor or shard and reports no success.    *)
(***************************************************************************)
C6_ShortReadAborts ==
    ShortRead => (pc = "exited" /\ result = "raised")

(***************************************************************************)
(* C7: with num_shards < 1 the split produces no shard file and does not   *)
(* return success.                                                         *)
(***************************************************************************)
C7_InvalidShardCount ==
    num_shards < 1 => (result # "True" /\ shards = << >>)

(***************************************************************************)
(* C8: a metadata value whose type tag, or array element tag, the reader   *)
(* has no decoder for makes the parse fail, and a parse that reaches the   *)
(* tensor count has its cursor at the end of the metadata sections.        *)
(***************************************************************************)
C8_UnknownTagFails ==
    /\ rd.unknown > 0 => rd.stage = "raised"
    /\ rd.stage = "tensor_count" => rd.pos = input.meta_end

(***************************************************************************)
(* C9: the process ends with status 0 only when the file was parsed and    *)
(* all shards were completely written; a wrong magic, a parse failure or a *)
(* failed read ends it with a non-zero status.                             *)
(***************************************************************************)
C9_ExitStatus ==
    exit_status = 0 =>
        /\ rd.stage = "parsed"
        /\ result = "True"
        /\ Len(shards) = num_shards
        /\ ~ShortRead

(***************************************************************************)
(* C10: in a shard file no tensor data bytes are written before the last   *)
(* descriptor of the shard: header, then all descriptors, then the data.   *)
(***************************************************************************)
C10_DescriptorsBeforeData ==
    \A s \in 1..Len(shards) :
        \A j, k \in 1..Len(shards[s]) :
            (j < k /\ IsData(shards[s][j]) /\ shards[s][j].bytes # << >>)
                => ~IsInfo(shards[s][k])
====
